---- MODULE Spec2Model ----
(***************************************************************************)
(* SmashMate: the match-rating core (app/core/matches.py) over the tables  *)
(* of app/services/database.py (player_ratings, teams, matches,            *)
(* match_players).                                                         *)
(*                                                                         *)
(* Numbers: mu and sigma are fixed-point, in thousandths (25.0 = 25000);   *)
(* variances are in millionths.  Player ids are UUID strings, modelled as  *)
(* short sequences of lowercase hex digits compared as Python compares     *)
(* str values (code point by code point).                                  *)
(***************************************************************************)
EXTENDS Integers, Sequences, FiniteSets, TLC

VARIABLES player_ratings, teams, matches, match_players, profiles,
          procs, ops, last

vars == <<player_ratings, teams, matches, match_players, profiles,
          procs, ops, last>>

(***************************************************************************)
(* Bounds and input sets                                                   *)
(***************************************************************************)
\* Number of operations (match applications and direct create_team calls)
\* in one behaviour.
MaxOps == 3

\* Player ids, as the hex digits of str(uuid): "09" < "0a" < "9f" < "a1".
PA == <<0, 9>>
PB == <<0, 10>>
PC == <<10, 1>>
PD == <<9, 15>>

Players == {PA, PB, PC, PD}

\* (team1_players, team2_players) of the submitted matches: a regular
\* match, the same pairs listed in the other order, a change of partners,
\* a team naming one player twice, a player on both teams.
Compositions ==
    { << <<PA, PB>>, <<PC, PD>> >>,
      << <<PB, PA>>, <<PD, PC>> >>,
      << <<PA, PC>>, <<PB, PD>> >>,
      << <<PA, PA>>, <<PB, PC>> >>,
      << <<PA, PB>>, <<PA, PC>> >> }

Set(a, b) == [team1 |-> a, team2 |-> b]

\* scores of the submitted matches: team 1 wins 1-0 with one set of equal
\* points, a 1-1 split, and 2-1 for team 2.
ScoreLists ==
    { << Set(21, 18), Set(20, 20) >>,
      << Set(21, 18), Set(18, 21) >>,
      << Set(15, 21), Set(21, 19), Set(17, 21) >> }

\* Arguments (player_a, player_b) of the direct create_team calls.
TeamArgs == { <<PA, PB>>, <<PB, PA>>, <<PD, PA>>, <<PC, PC>> }

(***************************************************************************)
(* str(UUID) comparison                                                    *)
(***************************************************************************)
\* Code point of a lowercase hex digit: '0'..'9' = 48..57, 'a'..'f' = 97..102.
Ord(d) == IF d < 10 THEN 48 + d ELSE 87 + d

RECURSIVE StrGreaterFrom(_, _, _)
StrGreaterFrom(a, b, i) ==
    IF i > Len(a) THEN FALSE
    ELSE IF i > Len(b) THEN TRUE
    ELSE IF Ord(a[i]) # Ord(b[i]) THEN Ord(a[i]) > Ord(b[i])
    ELSE StrGreaterFrom(a, b, i + 1)

\* str(a) > str(b)
StrGreater(a, b) == StrGreaterFrom(a, b, 1)

(***************************************************************************)
(* The skill model: trueskill.rate for two teams of two, first team the    *)
(* winner, with the library's default environment (mu 25, sigma 25/3,      *)
(* beta 25/6, tau 25/300, draw probability 0.10).                          *)
(***************************************************************************)
Scale == 10 * 10 * 10

\* Rating(): the default prior.
MU == 25 * Scale
SIGMA == MU \div 3

\* beta^2 and tau^2, in millionths.
BETA2 == (MU * MU) \div 36
TAU2 == (MU * MU) \div 90000

\* The draw margin for four players: ppf((0.10 + 1) / 2) * sqrt(4) * beta.
DrawMargin == 1047

Rating(mu, sigma) == [mu |-> mu, sigma |-> sigma]

RECURSIVE Newton(_, _)
Newton(n, x) ==
    LET y == (x + (n \div x)) \div 2
    IN  IF y >= x THEN x ELSE Newton(n, y)

\* floor(sqrt(n))
ISqrt(n) ==
    IF n = 0 THEN 0
    ELSE IF n < 32768 * 32768 THEN Newton(n, 32768) ELSE Newton(n, n)

\* v(x) = pdf(x) / cdf(x) of the standard normal, in thousandths, at
\* x = -6.0, -5.75, ..., 6.0.
VStep == Scale \div 4
VLow == -6 * Scale
VTable ==
    << 6158, 5915, 5671, 5429, 5187, 4945, 4704, 4464, 4226, 3988, 3751,
       3516, 3283, 3052, 2823, 2596, 2373, 2154, 1939, 1729, 1525, 1329,
       1141, 964, 798, 646, 509, 389, 288, 204, 139, 90, 55, 32, 18, 9, 4,
       2, 1, 0, 0, 0, 0, 0, 0, 0, 0, 0, 0 >>

\* v_win: the additive correction of the mean, by linear interpolation;
\* v(x) tends to -x far below 0 and to 0 far above.
VWin(x) ==
    IF x <= VLow THEN -x
    ELSE IF x >= -VLow THEN 0
    ELSE LET k == ((x - VLow) \div VStep) + 1
             r == (x - VLow) % VStep
         IN  VTable[k] + (((VTable[k + 1] - VTable[k]) * r) \div VStep)

\* w_win: the multiplicative correction of the variance, v * (v + x).
WWin(x) == (VWin(x) * (VWin(x) + x)) \div Scale

\* The prior variance of one player after the dynamics factor.
PriorVar(r) == (r.sigma * r.sigma) + TAU2

\* c^2: the variance of the difference of the two team performances.
TotalVar(w, l) ==
    PriorVar(w[1]) + PriorVar(w[2]) + PriorVar(l[1]) + PriorVar(l[2])
        + (4 * BETA2)

\* The change of a player's mean, and the player's new sigma.
Shift(r, c, v) == ((PriorVar(r) \div c) * v) \div Scale

\* a / b, rounded up.
CeilDiv(a, b) == (a + (b - 1)) \div b

\* The share of a player's variance that the result removes, w * pv / c^2,
\* in ten-thousandths, rounded up.
Share(pv, c2, ww) ==
    CeilDiv(CeilDiv(pv, c2 \div (10 * Scale)) * ww, Scale)

\* pv * share, in millionths, rounded up; the product is taken in two
\* parts to stay within 32 bits.
Reduction(pv, share) ==
    ((pv \div (10 * Scale)) * share)
        + CeilDiv((pv % (10 * Scale)) * share, 10 * Scale)

\* sqrt(pv * (1 - w * pv / c^2)): the variance after the dynamics factor,
\* less the share the result removes.  The roundings all lower the result.
NewSigma(r, c2, ww) ==
    ISqrt(PriorVar(r) - Reduction(PriorVar(r), Share(PriorVar(r), c2, ww)))

\* The new ratings, given c^2, c and the corrections v and w.
Rated(w, l, c2, c, v, ww) ==
    << << Rating(w[1].mu + Shift(w[1], c, v), NewSigma(w[1], c2, ww)),
          Rating(w[2].mu + Shift(w[2], c, v), NewSigma(w[2], c2, ww)) >>,
       << Rating(l[1].mu - Shift(l[1], c, v), NewSigma(l[1], c2, ww)),
          Rating(l[2].mu - Shift(l[2], c, v), NewSigma(l[2], c2, ww)) >> >>

\* The corrections at x, the scaled difference of the team means.
RatedAt(w, l, c2, c, x) == Rated(w, l, c2, c, VWin(x), WWin(x))

RatedWith(w, l, c2, c) ==
    RatedAt(w, l, c2, c,
            ((((w[1].mu + w[2].mu) - (l[1].mu + l[2].mu)) - DrawMargin)
                * Scale) \div c)

\* rate([winners, losers]): the new ratings, in the order of the argument.
rate(groups) ==
    RatedWith(groups[1], groups[2], TotalVar(groups[1], groups[2]),
              ISqrt(TotalVar(groups[1], groups[2])))

(***************************************************************************)
(* DatabaseService: the tables and the operations on them.                 *)
(*   player_ratings : player_id -> [mu, sigma, games_played]               *)
(*   teams          : rows [id, player_a, player_b, mu, sigma,             *)
(*                          games_played]                                  *)
(*   matches        : rows [id, scores, status]                            *)
(*   match_players  : rows [match_id, player_id, team, is_winner]          *)
(* A query result (response.data) is a sequence of rows; a missing row is  *)
(* the empty sequence.                                                     *)
(***************************************************************************)

\* get_player_rating: the player's row, or nothing.
get_player_rating(pr, player_id) ==
    IF player_id \in DOMAIN pr THEN << pr[player_id] >> ELSE << >>

\* An insert that leaves the row of a player who has one as it is.
update_player_rating_KeepFirst(pr, player_id, mu, sigma, games_played) ==
    IF player_id \in DOMAIN pr THEN pr
    ELSE [q \in (DOMAIN pr) \cup {player_id} |->
            IF q = player_id
            THEN [mu |-> mu, sigma |-> sigma, games_played |-> games_played]
            ELSE pr[q]]

\* update_player_rating: the upsert of the player's row.
update_player_rating(pr, player_id, mu, sigma, games_played) ==
    [q \in (DOMAIN pr) \cup {player_id} |->
        IF q = player_id
        THEN [mu |-> mu, sigma |-> sigma, games_played |-> games_played]
        ELSE pr[q]]

\* A create_team that keeps the arguments in the order given.
CanonicalPair_NoSwap(player_a, player_b) == << player_a, player_b >>

\* create_team, the ordering of the key: swap when str(a) > str(b).
CanonicalPair(player_a, player_b) ==
    IF StrGreater(player_a, player_b)
    THEN << player_b, player_a >>
    ELSE << player_a, player_b >>

\* A create_team whose existence check finds nothing.
ExistingTeam_None(tm, player_a, player_b) == << >>

\* create_team, the existence check: the rows with this key.
ExistingTeam(tm, player_a, player_b) ==
    SelectSeq(tm, LAMBDA t : t.player_a = player_a /\ t.player_b = player_b)

\* The constraint of the teams table: player_a < player_b.
TeamConstraint(player_a, player_b) == StrGreater(player_b, player_a)

\* The games_played of a team row inserted without one.
TeamGamesPlayedDefault == 0

\* create_team, the insert: the new row.
NewTeamRow(tm, player_a, player_b, mu, sigma) ==
    [id |-> Len(tm) + 1, player_a |-> player_a, player_b |-> player_b,
     mu |-> mu, sigma |-> sigma, games_played |-> TeamGamesPlayedDefault]

\* A create_team that looks the pair up and never inserts.
create_team_LookupOnly(tm, player_a, player_b, mu, sigma) ==
    LET key == CanonicalPair(player_a, player_b)
    IN  [teams |-> tm, ret |-> ExistingTeam(tm, key[1], key[2]),
         raised |-> FALSE]

\* create_team: the table after the call, the row returned, and whether the
\* insert raised.
create_team(tm, player_a, player_b, mu, sigma) ==
    LET key == CanonicalPair(player_a, player_b)
        existing_team == ExistingTeam(tm, key[1], key[2])
    IN  IF existing_team # << >>
        THEN [teams |-> tm, ret |-> << existing_team[1] >>, raised |-> FALSE]
        ELSE IF ~TeamConstraint(key[1], key[2])
        THEN [teams |-> tm, ret |-> << >>, raised |-> TRUE]
        ELSE LET row == NewTeamRow(tm, key[1], key[2], mu, sigma)
             IN  [teams |-> Append(tm, row), ret |-> << row >>,
                  raised |-> FALSE]

\* update_team_rating: the update of the row with this id.
update_team_rating(tm, team_id, mu, sigma, games_played) ==
    [i \in DOMAIN tm |->
        IF tm[i].id = team_id
        THEN [tm[i] EXCEPT !.mu = mu, !.sigma = sigma,
                           !.games_played = games_played]
        ELSE tm[i]]

\* DatabaseService.create_match: the match row, then its players' rows.
db_create_match(ms, mps, scores, players) ==
    LET match == [id |-> Len(ms) + 1, scores |-> scores,
                  status |-> "confirmed"]
        player_data ==
            [i \in DOMAIN players |->
                [match_id |-> match.id, player_id |-> players[i][1],
                 team |-> players[i][2], is_winner |-> players[i][3]]]
    IN  [matches |-> Append(ms, match),
         match_players |-> mps \o player_data,
         match |-> match]

\* get_match: the match row with its players' rows.
get_match(ms, mps, match_id) ==
    [match |-> SelectSeq(ms, LAMBDA m : m.id = match_id)[1],
     players |-> SelectSeq(mps, LAMBDA p : p.match_id = match_id)]

(***************************************************************************)
(* The compatibility queries of app/services/database.py.  The values      *)
(* avg_individual_rating and compatibility_score are halves of a           *)
(* thousandth (25.0 = 50000), so that (a + b) / 2 is exact.                *)
(***************************************************************************)
Halves(x) == 2 * x

\* A lookup that takes the mu of a player without a row as 0.
RatingMu_Zero(pr, player_id) ==
    IF player_id \in DOMAIN pr THEN pr[player_id].mu ELSE 0

\* ratings_dict.get(player_id, {}).get("mu", 25.0)
RatingMu(pr, player_id) ==
    IF player_id \in DOMAIN pr THEN pr[player_id].mu ELSE 25 * Scale

\* A filter that takes every team row, whoever is in it.
PlayerTeamsFrom_All(tm, player_id, i) ==
    [k \in DOMAIN tm |->
        [partner_id |-> IF tm[k].player_a = player_id THEN tm[k].player_b
                        ELSE tm[k].player_a,
         team_mu |-> tm[k].mu, team_sigma |-> tm[k].sigma,
         games_played |-> tm[k].games_played]]

\* for team in teams: the rows with player_id as player_a or player_b,
\* each with the other player as partner_id.
RECURSIVE PlayerTeamsFrom(_, _, _)
PlayerTeamsFrom(tm, player_id, i) ==
    IF i > Len(tm) THEN << >>
    ELSE (IF tm[i].player_a = player_id
          THEN << [partner_id |-> tm[i].player_b, team_mu |-> tm[i].mu,
                   team_sigma |-> tm[i].sigma,
                   games_played |-> tm[i].games_played] >>
          ELSE IF tm[i].player_b = player_id
          THEN << [partner_id |-> tm[i].player_a, team_mu |-> tm[i].mu,
                   team_sigma |-> tm[i].sigma,
                   games_played |-> tm[i].games_played] >>
          ELSE << >>)
         \o PlayerTeamsFrom(tm, player_id, i + 1)

PlayerTeams(tm, player_id) == PlayerTeamsFrom(tm, player_id, 1)

\* One entry: the average of the two players' mu and the team's mu over it.
ScoreEntry(team, player_rating, partner_rating) ==
    LET avg_individual_rating ==
            (Halves(player_rating) + Halves(partner_rating)) \div 2
    IN  [partner_id |-> team.partner_id,
         team_rating |-> team.team_mu,
         avg_individual_rating |-> avg_individual_rating,
         compatibility_score |-> Halves(team.team_mu) - avg_individual_rating]

\* The entries of the teams, in the order of the teams; player_rating is
\* looked up once, before the loop.
ScoreEntries(pr, player_teams, player_id) ==
    LET player_rating == RatingMu(pr, player_id)
    IN  [k \in DOMAIN player_teams |->
            ScoreEntry(player_teams[k], player_rating,
                       RatingMu(pr, player_teams[k].partner_id))]

\* The entry of get_recommended_partners: with the team's games_played.
Recommendation(team, player_rating, partner_rating) ==
    ScoreEntry(team, player_rating, partner_rating)
        @@ [games_played_together |-> team.games_played]

Recommendations(pr, player_teams, player_id) ==
    LET player_rating == RatingMu(pr, player_id)
    IN  [k \in DOMAIN player_teams |->
            Recommendation(player_teams[k], player_rating,
                           RatingMu(pr, player_teams[k].partner_id))]

\* A sort that leaves the entries in the order of the teams table.
SortByScore_Unsorted(entries) == entries

\* list.sort(key=compatibility_score, reverse=True): stable, highest first.
RECURSIVE InsertByScore(_, _)
InsertByScore(sorted, e) ==
    IF sorted = << >> THEN << e >>
    ELSE IF Head(sorted).compatibility_score >= e.compatibility_score
    THEN << Head(sorted) >> \o InsertByScore(Tail(sorted), e)
    ELSE << e >> \o sorted

RECURSIVE SortFrom(_, _, _)
SortFrom(sorted, entries, i) ==
    IF i > Len(entries) THEN sorted
    ELSE SortFrom(InsertByScore(sorted, entries[i]), entries, i + 1)

SortByScore(entries) == SortFrom(<< >>, entries, 1)

\* DatabaseService.get_compatibility_scores
db_get_compatibility_scores(tm, pr, player_id) ==
    LET player_teams == PlayerTeams(tm, player_id)
    IN  IF player_teams = << >> THEN << >>
        ELSE SortByScore(ScoreEntries(pr, player_teams, player_id))

\* A selection that ignores min_games.
TeamsWithMinGames_All(tm, min_games) == tm

\* select("*").gte("games_played", min_games)
TeamsWithMinGames(tm, min_games) ==
    SelectSeq(tm, LAMBDA t : t.games_played >= min_games)

\* recommendations[:limit], as Python slices a list.
Slice(entries, limit) ==
    LET n == IF limit >= 0
             THEN (IF limit < Len(entries) THEN limit ELSE Len(entries))
             ELSE (IF Len(entries) + limit > 0 THEN Len(entries) + limit
                   ELSE 0)
    IN  SubSeq(entries, 1, n)

\* DatabaseService.get_recommended_partners
db_get_recommended_partners(tm, pr, player_id, limit, min_games) ==
    LET player_teams == PlayerTeams(TeamsWithMinGames(tm, min_games),
                                    player_id)
    IN  IF player_teams = << >> THEN << >>
        ELSE Slice(SortByScore(Recommendations(pr, player_teams,
                                               player_id)),
                   limit)

\* An order that puts the rows of lowest mu first.
HighestMu_Lowest(tm, S) == {i \in S : \A j \in S : tm[i].mu <= tm[j].mu}

\* order("mu", desc=True): among the rows S not yet placed, those that can
\* come next, the rows no other one exceeds in mu; the store is free in
\* the order of rows of equal mu.
HighestMu(tm, S) == {i \in S : \A j \in S : tm[j].mu <= tm[i].mu}

\* The orders in which the store may hand out the rows S.
RECURSIVE OrdersByMu(_, _)
OrdersByMu(tm, S) ==
    IF S = {} THEN { << >> }
    ELSE UNION { { << tm[i] >> \o rest : rest \in OrdersByMu(tm, S \ {i}) } :
                 i \in HighestMu(tm, S) }

\* limit(n): the first n rows, all of them when there are fewer.
Limit(rows, n) == SubSeq(rows, 1, IF n < Len(rows) THEN n ELSE Len(rows))

\* DatabaseService.get_top_teams: the possible answers of the store.
get_top_teams(tm, limit) ==
    { Limit(rows, limit) : rows \in OrdersByMu(tm, DOMAIN tm) }

\* DatabaseService.get_profiles_by_ids: the profiles among the ids.
get_profiles_by_ids(pf, user_ids) ==
    {u \in pf : \E k \in DOMAIN user_ids : user_ids[k] = u}

(***************************************************************************)
(* app/core/recommendations.py                                             *)
(***************************************************************************)
\* The rows whose partner has a profile, in the order of the rows.
WithProfiles(pf, rows) ==
    LET partner_ids == [k \in DOMAIN rows |-> rows[k].partner_id]
        profiles_dict == get_profiles_by_ids(pf, partner_ids)
    IN  SelectSeq(rows, LAMBDA row : row.partner_id \in profiles_dict)

\* The entry handed to the caller: the partner's profile for partner_id.
WithPartner(row) ==
    [f \in (DOMAIN row \ {"partner_id"}) \cup {"partner"} |->
        IF f = "partner" THEN row.partner_id ELSE row[f]]

Returned(pf, rows) ==
    LET kept == WithProfiles(pf, rows)
    IN  [k \in DOMAIN kept |-> WithPartner(kept[k])]

\* core get_compatibility_scores: the rows of the store query, and the
\* list returned.
get_compatibility_scores(db, pf, player_id) ==
    LET scores == db_get_compatibility_scores(db.teams, db.player_ratings,
                                              player_id)
    IN  [rows |-> scores,
         ret |-> IF scores = << >> THEN << >> ELSE Returned(pf, scores)]

\* core get_recommended_partners
get_recommended_partners(db, pf, player_id, limit, min_games) ==
    LET recommendations ==
            db_get_recommended_partners(db.teams, db.player_ratings,
                                        player_id, limit, min_games)
    IN  [rows |-> recommendations,
         ret |-> IF recommendations = << >> THEN << >>
                 ELSE Returned(pf, recommendations)]

\* The display_name of a player's profile.
display_name(player_id) ==
    CASE player_id = PA -> "Ordered 1"
      [] player_id = PB -> "Ordered 2"
      [] player_id = PC -> "Ordered 3"
      [] OTHER -> "Ordered 4"

\* The ids of both members of the teams, for the profile lookup.
MemberIds(tm) ==
    [k \in 1..(2 * Len(tm)) |->
        IF k % 2 = 1 THEN tm[(k + 1) \div 2].player_a
        ELSE tm[k \div 2].player_b]

\* profiles_dict.get(id, {}).get("display_name", "Unknown")
PlayerInfo(profiles_dict, id) ==
    [id |-> id,
     name |-> IF id \in profiles_dict THEN display_name(id) ELSE "Unknown"]

\* One entry of the rankings.
TeamRanking(profiles_dict, team) ==
    [player_a |-> PlayerInfo(profiles_dict, team.player_a),
     player_b |-> PlayerInfo(profiles_dict, team.player_b),
     team_rating |-> team.mu,
     games_played |-> team.games_played]

\* The list returned for the rows the store handed out.
Rankings(pf, tm) ==
    IF tm = << >> THEN << >>
    ELSE [k \in DOMAIN tm |->
             TeamRanking(get_profiles_by_ids(pf, MemberIds(tm)), tm[k])]

\* core get_team_rankings: for each possible answer of the store, its rows
\* and the list returned.
get_team_rankings(db, pf, limit) ==
    { [rows |-> tm, ret |-> Rankings(pf, tm)] :
        tm \in get_top_teams(db.teams, limit) }

(***************************************************************************)
(* app/core/matches.py                                                     *)
(***************************************************************************)

\* A read that starts a player without a row at mu 0.
CurrentRating_NoPrior(pr, player_id) ==
    LET rating == get_player_rating(pr, player_id)
    IN  IF rating # << >>
        THEN Rating(rating[1].mu, rating[1].sigma)
        ELSE Rating(0, SIGMA)

\* Rating(mu, sigma) of the stored row, else Rating(): the default prior.
CurrentRating(pr, player_id) ==
    LET rating == get_player_rating(pr, player_id)
    IN  IF rating # << >>
        THEN Rating(rating[1].mu, rating[1].sigma)
        ELSE Rating(MU, SIGMA)

\* Ratings read in the opposite order of the rows.
TeamRatings_Reversed(pr, team_players) ==
    [i \in DOMAIN team_players |->
        CurrentRating(pr, team_players[(Len(team_players) + 1) - i].player_id)]

\* team1_ratings / team2_ratings: one Rating per row of the team.
TeamRatings(pr, team_players) ==
    [i \in DOMAIN team_players |->
        CurrentRating(pr, team_players[i].player_id)]

\* An update that always passes team 1 to rate as the winner.
NewRatings_Team1First(team1_players, team1_ratings, team2_ratings) ==
    LET r == rate(<< team1_ratings, team2_ratings >>)
    IN  [team1 |-> r[1], team2 |-> r[2], winner |-> 1]

\* The call of rate: the winning team goes first, and the result is
\* unpacked in the same order.  winner is the team passed first.
NewRatings(team1_players, team1_ratings, team2_ratings) ==
    IF team1_players[1].is_winner
    THEN LET r == rate(<< team1_ratings, team2_ratings >>)
         IN  [team1 |-> r[1], team2 |-> r[2], winner |-> 1]
    ELSE LET r == rate(<< team2_ratings, team1_ratings >>)
         IN  [team1 |-> r[2], team2 |-> r[1], winner |-> 2]

\* A counter that ignores the stored row.
CurrentGamesPlayed_Zero(pr, player_id) == 0

\* current_games_played: read again right before the write.
CurrentGamesPlayed(pr, player_id) ==
    LET current_rating == get_player_rating(pr, player_id)
    IN  IF current_rating # << >> THEN current_rating[1].games_played ELSE 0

\* A write that leaves a player who already has a row alone.
WriteRating_KeepExisting(pr, player, new_rating) ==
    IF player.player_id \in DOMAIN pr THEN pr
    ELSE update_player_rating(pr, player.player_id, new_rating.mu,
                              new_rating.sigma, 1)

\* One round of a write loop: the player's new rating and counter.
WriteRating(pr, player, new_rating) ==
    update_player_rating(pr, player.player_id, new_rating.mu,
                         new_rating.sigma,
                         CurrentGamesPlayed(pr, player.player_id) + 1)

\* for player, new_rating in zip(team_players, new_ratings, strict=False)
RECURSIVE WriteRatingsFrom(_, _, _, _)
WriteRatingsFrom(pr, team_players, new_ratings, i) ==
    IF i > Len(team_players) \/ i > Len(new_ratings) THEN pr
    ELSE WriteRatingsFrom(WriteRating(pr, team_players[i], new_ratings[i]),
                          team_players, new_ratings, i + 1)

WriteRatings(pr, team_players, new_ratings) ==
    WriteRatingsFrom(pr, team_players, new_ratings, 1)

\* A team record carrying the new rating of the team's second row.
WriteTeam_Second(tm, team_players, new_ratings) ==
    create_team(tm, team_players[1].player_id, team_players[2].player_id,
                new_ratings[2].mu, new_ratings[2].sigma)

\* The team record of one team: keyed by its two players, carrying the new
\* rating of the team's first row.
WriteTeam(tm, team_players, new_ratings) ==
    create_team(tm, team_players[1].player_id, team_players[2].player_id,
                new_ratings[1].mu, new_ratings[1].sigma)

\* update_ratings: the tables after the call, what it computed on the way,
\* and whether a store operation raised.
update_ratings(db, match_id) ==
    LET match == get_match(db.matches, db.match_players, match_id)
        players == match.players
        team1_players == SelectSeq(players, LAMBDA p : p.team = 1)
        team2_players == SelectSeq(players, LAMBDA p : p.team = 2)
        team1_ratings == TeamRatings(db.player_ratings, team1_players)
        team2_ratings == TeamRatings(db.player_ratings, team2_players)
        new == NewRatings(team1_players, team1_ratings, team2_ratings)
        pr1 == WriteRatings(db.player_ratings, team1_players, new.team1)
        pr2 == WriteRatings(pr1, team2_players, new.team2)
        ct1 == WriteTeam(db.teams, team1_players, new.team1)
        ct2 == WriteTeam(ct1.teams, team2_players, new.team2)
    IN  [player_ratings |-> pr2,
         teams |-> IF ct1.raised THEN ct1.teams ELSE ct2.teams,
         raised |-> ct1.raised \/ ct2.raised,
         team1_ratings |-> team1_ratings,
         team2_ratings |-> team2_ratings,
         new_team1_ratings |-> new.team1,
         new_team2_ratings |-> new.team2,
         winner |-> new.winner]

\* sum(1 for score in scores if score["team1"] > score["team2"])
RECURSIVE team1_wins(_)
team1_wins(scores) ==
    IF scores = << >> THEN 0
    ELSE (IF Head(scores).team1 > Head(scores).team2 THEN 1 ELSE 0)
            + team1_wins(Tail(scores))

\* A count that gives team 2 the sets of equal points as well.
RECURSIVE team2_wins_ge(_)
team2_wins_ge(scores) ==
    IF scores = << >> THEN 0
    ELSE (IF Head(scores).team2 >= Head(scores).team1 THEN 1 ELSE 0)
            + team2_wins_ge(Tail(scores))

\* sum(1 for score in scores if score["team2"] > score["team1"])
RECURSIVE team2_wins(_)
team2_wins(scores) ==
    IF scores = << >> THEN 0
    ELSE (IF Head(scores).team2 > Head(scores).team1 THEN 1 ELSE 0)
            + team2_wins(Tail(scores))

\* A winner rule that gives team 1 the split matches.
team1_won_ge(scores) == team1_wins(scores) >= team2_wins(scores)

team1_won(scores) == team1_wins(scores) > team2_wins(scores)

\* Rows that all carry the flag of team 1.
MatchPlayers_AllWin(team1_players, team2_players, won) ==
    << << team1_players[1], 1, won >>,
       << team1_players[2], 1, won >>,
       << team2_players[1], 2, won >>,
       << team2_players[2], 2, won >> >>

\* The (player_id, team, is_winner) rows handed to the store.
MatchPlayers(team1_players, team2_players, won) ==
    << << team1_players[1], 1, won >>,
       << team1_players[2], 1, won >>,
       << team2_players[1], 2, ~won >>,
       << team2_players[2], 2, ~won >> >>

\* create_match: store the match and its players, then update the ratings.
create_match(db, team1_players, team2_players, scores) ==
    LET won == team1_won(scores)
        players == MatchPlayers(team1_players, team2_players, won)
        stored == db_create_match(db.matches, db.match_players, scores,
                                  players)
        db1 == [db EXCEPT !.matches = stored.matches,
                          !.match_players = stored.match_players]
        rated == update_ratings(db1, stored.match.id)
    IN  [matches |-> stored.matches,
         match_players |-> stored.match_players,
         match |-> stored.match,
         team1_won |-> won,
         rated |-> rated]

(***************************************************************************)
(* The state machine                                                       *)
(***************************************************************************)
Database ==
    [player_ratings |-> player_ratings, teams |-> teams,
     matches |-> matches, match_players |-> match_players]

\* The processes whose requests to the store are followed one by one.
Procs == {1}

\* The locals of one create_match / update_ratings call, and where it is.
\* games_at_read is not a local of the code: it records, for each rating
\* read, the games_played of the row the rating came from (0 without one).
IdleProc ==
    [pc |-> "idle", match_id |-> 0, team |-> 1, i |-> 1,
     team1_players |-> << >>, team2_players |-> << >>,
     team1_ratings |-> << >>, team2_ratings |-> << >>,
     new_team1_ratings |-> << >>, new_team2_ratings |-> << >>,
     current_games_played |-> 0, written |-> {}, failed_at |-> "none",
     games_at_read |-> << >>, player_data |-> << >>]

Init ==
    /\ player_ratings = << >>
    /\ teams = << >>
    /\ matches = << >>
    /\ match_players = << >>
    /\ profiles = {}
    /\ procs = [p \in Procs |-> IdleProc]
    /\ ops = 0
    /\ last = [op |-> "init"]

\* One match application: core create_match, update_ratings included.
CreateMatch(team1_players, team2_players, scores) ==
    /\ ops < MaxOps
    /\ \E r \in {create_match(Database, team1_players, team2_players, scores)} :
           /\ matches' = r.matches
           /\ match_players' = r.match_players
           /\ player_ratings' = r.rated.player_ratings
           /\ teams' = r.rated.teams
           /\ last' = [op |-> "create_match",
                       team1_players |-> team1_players,
                       team2_players |-> team2_players,
                       scores |-> scores,
                       match_id |-> r.match.id,
                       team1_won |-> r.team1_won,
                       pre_ratings |-> player_ratings,
                       pre_teams |-> teams,
                       team1_ratings |-> r.rated.team1_ratings,
                       team2_ratings |-> r.rated.team2_ratings,
                       new_team1_ratings |-> r.rated.new_team1_ratings,
                       new_team2_ratings |-> r.rated.new_team2_ratings,
                       winner |-> r.rated.winner,
                       raised |-> r.rated.raised]
    /\ ops' = ops + 1
    /\ UNCHANGED <<profiles, procs>>

\* One direct call of DatabaseService.create_team.
CreateTeam(player_a, player_b, mu, sigma) ==
    /\ ops < MaxOps
    /\ \E r \in {create_team(teams, player_a, player_b, mu, sigma)} :
           /\ teams' = r.teams
           /\ last' = [op |-> "create_team",
                       player_a |-> player_a,
                       player_b |-> player_b,
                       mu |-> mu,
                       sigma |-> sigma,
                       pre_teams |-> teams,
                       ret |-> r.ret,
                       raised |-> r.raised]
    /\ ops' = ops + 1
    /\ UNCHANGED <<player_ratings, matches, match_players, profiles,
                   procs>>

Next ==
    \/ \E c \in Compositions, s \in ScoreLists : CreateMatch(c[1], c[2], s)
    \/ \E a \in TeamArgs : CreateTeam(a[1], a[2], MU, SIGMA)

Spec == Init /\ [][Next]_vars

\* The ids of the rows of one team of a stored match, as listed.
TeamIdsOf(match_id, team) ==
    LET rows == SelectSeq(match_players,
                          LAMBDA r : r.match_id = match_id /\ r.team = team)
    IN  [i \in DOMAIN rows |-> rows[i].player_id]

\* One direct call of update_ratings for a stored match.
UpdateRatings(match_id) ==
    /\ ops < MaxOps
    /\ \E r \in {update_ratings(Database, match_id)} :
           /\ player_ratings' = r.player_ratings
           /\ teams' = r.teams
           /\ last' = [op |-> "update_ratings",
                       match_id |-> match_id,
                       team1_players |-> TeamIdsOf(match_id, 1),
                       team2_players |-> TeamIdsOf(match_id, 2),
                       pre_ratings |-> player_ratings,
                       pre_teams |-> teams,
                       team1_ratings |-> r.team1_ratings,
                       team2_ratings |-> r.team2_ratings,
                       new_team1_ratings |-> r.new_team1_ratings,
                       new_team2_ratings |-> r.new_team2_ratings,
                       winner |-> r.winner,
                       raised |-> r.raised]
    /\ ops' = ops + 1
    /\ UNCHANGED <<matches, match_players, profiles, procs>>

\* Match applications, and update_ratings called again for stored matches.
NextReapply ==
    \/ \E c \in Compositions, s \in ScoreLists : CreateMatch(c[1], c[2], s)
    \/ \E m \in 1..Len(matches) : UpdateRatings(m)

SpecReapply == Init /\ [][NextReapply]_vars

\* One direct call of DatabaseService.update_team_rating.
UpdateTeamRating(team_id, mu, sigma, games_played) ==
    /\ ops < MaxOps
    /\ teams' = update_team_rating(teams, team_id, mu, sigma, games_played)
    /\ last' = [op |-> "update_team_rating", team_id |-> team_id,
                pre_teams |-> teams]
    /\ ops' = ops + 1
    /\ UNCHANGED <<player_ratings, matches, match_players, profiles,
                   procs>>

\* One call of core get_compatibility_scores: a read of the store.
GetCompatibilityScores(player_id) ==
    /\ \E r \in {get_compatibility_scores(Database, profiles, player_id)} :
           last' = [op |-> "get_compatibility_scores",
                    player_id |-> player_id,
                    rows |-> r.rows, ret |-> r.ret]
    /\ UNCHANGED <<player_ratings, teams, matches, match_players, profiles,
                   procs, ops>>

\* One call of core get_recommended_partners: a read of the store.
GetRecommendedPartners(player_id, limit, min_games) ==
    /\ \E r \in {get_recommended_partners(Database, profiles, player_id,
                                          limit, min_games)} :
           last' = [op |-> "get_recommended_partners",
                    player_id |-> player_id,
                    limit |-> limit, min_games |-> min_games,
                    rows |-> r.rows, ret |-> r.ret]
    /\ UNCHANGED <<player_ratings, teams, matches, match_players, profiles,
                   procs, ops>>

\* A ranking that writes the rows it was handed back as the teams table.
GetTeamRankings_Rewrite(limit) ==
    /\ \E r \in get_team_rankings(Database, profiles, limit) :
           /\ last' = [op |-> "get_team_rankings", limit |-> limit,
                       rows |-> r.rows, ret |-> r.ret]
           /\ teams' = r.rows
    /\ UNCHANGED <<player_ratings, matches, match_players, profiles,
                   procs, ops>>

\* One call of core get_team_rankings: a read of the store.
GetTeamRankings(limit) ==
    /\ \E r \in get_team_rankings(Database, profiles, limit) :
           last' = [op |-> "get_team_rankings", limit |-> limit,
                    rows |-> r.rows, ret |-> r.ret]
    /\ UNCHANGED <<player_ratings, teams, matches, match_players, profiles,
                   procs, ops>>

\* The inputs of the query specification: two matches in which PA plays
\* with PB and then with PC, won by team 1 or by team 2; direct team
\* writes; the players asked about, limit and min_games.
QueryCompositions ==
    { << <<PA, PB>>, <<PC, PD>> >>, << <<PA, PC>>, <<PB, PD>> >> }
QueryScoreLists ==
    { << Set(21, 18), Set(20, 20) >>,
      << Set(15, 21), Set(21, 19), Set(17, 21) >> }
QueryTeamArgs == { <<PA, PB>>, <<PD, PA>> }
TeamUpdates == { << 26 * Scale, 8 * Scale, 5 >> }
QueryPlayers == {PA, PD}
Limits == {-1, 0, 1, 5}
MinGames == {0, 3, 6}

\* limit of the rankings: none, fewer than the teams stored, the default.
RankingLimits == {0, 2, 10}

\* The profiles that exist: every player has signed up, or all but PD.
ProfileSets == { Players, Players \ {PD} }

InitQuery ==
    /\ player_ratings = << >>
    /\ teams = << >>
    /\ matches = << >>
    /\ match_players = << >>
    /\ profiles \in ProfileSets
    /\ procs = [p \in Procs |-> IdleProc]
    /\ ops = 0
    /\ last = [op |-> "init"]

NextQuery ==
    \/ \E c \in QueryCompositions, s \in QueryScoreLists :
          CreateMatch(c[1], c[2], s)
    \/ \E a \in QueryTeamArgs : CreateTeam(a[1], a[2], MU, SIGMA)
    \/ \E t \in 1..Len(teams), u \in TeamUpdates :
          UpdateTeamRating(t, u[1], u[2], u[3])
    \/ \E p \in QueryPlayers : GetCompatibilityScores(p)
    \/ \E l \in Limits, g \in MinGames : GetRecommendedPartners(PA, l, g)
    \/ \E l \in RankingLimits : GetTeamRankings(l)

SpecQuery == InitQuery /\ [][NextQuery]_vars

(***************************************************************************)
(* app/api/matches.py: POST /matches/                                      *)
(***************************************************************************)
\* A validation that looks at team 1 only.
ValidTeams_Team1Only(team1_players, team2_players) ==
    Len(team1_players) = 2

\* not (len(team1_players) != 2 or len(team2_players) != 2)
ValidTeams(team1_players, team2_players) ==
    ~(Len(team1_players) # 2 \/ Len(team2_players) # 2)

\* The handler: 400 for a team that has not exactly 2 players; else the
\* core create_match with the first two of each team, answered 200, or
\* 500 when a store operation raised.
PostMatch(team1_players, team2_players, scores) ==
    /\ ops < MaxOps
    /\ IF ~ValidTeams(team1_players, team2_players)
       THEN /\ last' = [op |-> "post_match",
                        team1_players |-> team1_players,
                        team2_players |-> team2_players,
                        status_code |-> 400,
                        detail |-> "Each team must have exactly 2 players",
                        pre |-> Database]
            /\ UNCHANGED <<player_ratings, teams, matches, match_players>>
       ELSE \E r \in {create_match(Database,
                                    << team1_players[1], team1_players[2] >>,
                                    << team2_players[1], team2_players[2] >>,
                                    scores)} :
               /\ matches' = r.matches
               /\ match_players' = r.match_players
               /\ player_ratings' = r.rated.player_ratings
               /\ teams' = r.rated.teams
               /\ last' = [op |-> "post_match",
                           team1_players |-> team1_players,
                           team2_players |-> team2_players,
                           status_code |->
                               IF r.rated.raised THEN 500 ELSE 200,
                           detail |-> IF r.rated.raised
                                      THEN "Failed to create match"
                                      ELSE "",
                           pre |-> Database]
    /\ ops' = ops + 1
    /\ UNCHANGED <<profiles, procs>>

\* The team lists submitted: two regular matches, a team naming one
\* player twice, and lists with one, no or three players in a team.
Submissions ==
    { << <<PA, PB>>, <<PC, PD>> >>,
      << <<PA, PC>>, <<PB, PD>> >>,
      << <<PA, PA>>, <<PB, PC>> >>,
      << <<PA>>, <<PB, PC>> >>,
      << << >>, <<PC, PD>> >>,
      << <<PA, PB, PC>>, <<PD, PB>> >>,
      << <<PA, PB>>, <<PC, PD, PA>> >>,
      << <<PA, PB, PD>>, <<PC>> >> }

NextApi ==
    \E c \in Submissions, s \in QueryScoreLists : PostMatch(c[1], c[2], s)

SpecApi == Init /\ [][NextApi]_vars

\* One direct call of DatabaseService.update_player_rating.
UpdatePlayerRating(player_id, mu, sigma, games_played) ==
    /\ ops < MaxOps
    /\ player_ratings' = update_player_rating(player_ratings, player_id, mu,
                                              sigma, games_played)
    /\ last' = [op |-> "update_player_rating", player_id |-> player_id,
                pre_ratings |-> player_ratings]
    /\ ops' = ops + 1
    /\ UNCHANGED <<teams, matches, match_players, profiles, procs>>

\* The rating row of a player with a long record: after 200 matches won
\* and lost in turn against the same pair, mu is back near 25 and sigma
\* is down to about 1.
SeasonedRatings == { << 25 * Scale, Scale, 200 >> }

\* Matches among players some of whom bring such a record.
NextSeasoned ==
    \/ \E p \in Players, r \in SeasonedRatings :
          UpdatePlayerRating(p, r[1], r[2], r[3])
    \/ \E c \in QueryCompositions, s \in QueryScoreLists :
          CreateMatch(c[1], c[2], s)

SpecSeasoned == Init /\ [][NextSeasoned]_vars

(***************************************************************************)
(* Match applications side by side.  A process of Procs runs create_match  *)
(* and update_ratings one store request at a time; between two of its      *)
(* requests the other server processes may run whole match applications,   *)
(* which are CreateMatch steps.                                            *)
(***************************************************************************)
\* Two more players: "12" and "f0".
PE == <<1, 2>>
PF == <<15, 0>>

ConcPlayers == Players \cup {PE, PF}

\* The matches submitted side by side, as (team1_players, team2_players,
\* scores): PA and PB beat PC and PD; PB and PA, listed the other way and
\* as team 2, lose to PE and PF.  The two matches share PA, PB and
\* their pair.
ConcMatches ==
    { << <<PA, PB>>, <<PC, PD>>, << Set(21, 18), Set(20, 20) >> >>,
      << <<PE, PF>>, <<PB, PA>>, << Set(21, 18), Set(20, 20) >> >> }

\* The positions at which a request to the store is pending.
InFlight ==
    {"match_players", "get_match", "read", "games_played", "upsert",
     "team_select", "team_insert"}

\* The rows, the ratings read and the new ratings of team k of process p.
PlayersOf(p, k) ==
    IF k = 1 THEN procs[p].team1_players ELSE procs[p].team2_players
NewOf(p, k) ==
    IF k = 1 THEN procs[p].new_team1_ratings ELSE procs[p].new_team2_ratings

\* The player the loop of process p is at.
PlayerAt(p) == PlayersOf(p, procs[p].team)[procs[p].i].player_id

\* The games_played of a player's row in table pr, 0 without a row.
GamesPlayedOfRow(pr, player_id) ==
    IF player_id \in DOMAIN pr THEN pr[player_id].games_played ELSE 0

\* create_match up to the store's first answer: the match row is
\* inserted; player_data holds the rows that go with it.
Start(p, team1_players, team2_players, scores) ==
    /\ ops < MaxOps
    /\ procs[p].pc \in {"idle", "done", "failed"}
    /\ LET won == team1_won(scores)
           stored == db_create_match(matches, match_players, scores,
                        MatchPlayers(team1_players, team2_players, won))
       IN  /\ matches' = stored.matches
           /\ procs' = [procs EXCEPT ![p] =
                           [IdleProc EXCEPT
                               !.pc = "match_players",
                               !.match_id = stored.match.id,
                               !.player_data =
                                   SubSeq(stored.match_players,
                                          Len(match_players) + 1,
                                          Len(stored.match_players))]]
    /\ ops' = ops + 1
    /\ last' = [op |-> "start", proc |-> p]
    /\ UNCHANGED <<player_ratings, teams, match_players, profiles>>

\* DatabaseService.create_match, the second insert: the four rows of the
\* match's players, in one request.
InsertMatchPlayers(p) ==
    /\ procs[p].pc = "match_players"
    /\ match_players' = match_players \o procs[p].player_data
    /\ procs' = [procs EXCEPT ![p].pc = "get_match"]
    /\ UNCHANGED <<player_ratings, teams, matches, profiles, ops, last>>

\* update_ratings, get_match: the rows of the two teams.
GetMatch(p) ==
    /\ procs[p].pc = "get_match"
    /\ LET players == get_match(matches, match_players,
                                procs[p].match_id).players
       IN  procs' = [procs EXCEPT
                        ![p].pc = "read",
                        ![p].team1_players =
                            SelectSeq(players, LAMBDA r : r.team = 1),
                        ![p].team2_players =
                            SelectSeq(players, LAMBDA r : r.team = 2)]
    /\ UNCHANGED <<player_ratings, teams, matches, match_players, profiles,
                   ops, last>>

\* update_ratings, one get_player_rating of the read loops; after the
\* fourth one rate is called on what was read.
ReadRating(p) ==
    /\ procs[p].pc = "read"
    /\ LET rating == CurrentRating(player_ratings, PlayerAt(p))
           t1 == IF procs[p].team = 1
                 THEN Append(procs[p].team1_ratings, rating)
                 ELSE procs[p].team1_ratings
           t2 == IF procs[p].team = 2
                 THEN Append(procs[p].team2_ratings, rating)
                 ELSE procs[p].team2_ratings
           seen == Append(procs[p].games_at_read,
                          GamesPlayedOfRow(player_ratings, PlayerAt(p)))
       IN  IF procs[p].team = 2 /\ procs[p].i = 2
           THEN \E new \in {NewRatings(procs[p].team1_players, t1, t2)} :
                   procs' = [procs EXCEPT
                                ![p].pc = "games_played",
                                ![p].team = 1, ![p].i = 1,
                                ![p].team1_ratings = t1,
                                ![p].team2_ratings = t2,
                                ![p].new_team1_ratings = new.team1,
                                ![p].new_team2_ratings = new.team2,
                                ![p].games_at_read = seen]
           ELSE procs' = [procs EXCEPT
                             ![p].team = IF procs[p].i = 2 THEN 2 ELSE @,
                             ![p].i = IF procs[p].i = 2 THEN 1 ELSE 2,
                             ![p].team1_ratings = t1,
                             ![p].team2_ratings = t2,
                             ![p].games_at_read = seen]
    /\ UNCHANGED <<player_ratings, teams, matches, match_players, profiles,
                   ops, last>>

\* update_ratings, the write loops: the games_played read before a write.
ReadGamesPlayed(p) ==
    /\ procs[p].pc = "games_played"
    /\ procs' = [procs EXCEPT
                    ![p].pc = "upsert",
                    ![p].current_games_played =
                        CurrentGamesPlayed(player_ratings, PlayerAt(p))]
    /\ UNCHANGED <<player_ratings, teams, matches, match_players, profiles,
                   ops, last>>

\* A write loop that stores the ratings of team 1 only and goes on to the
\* team records.
Upsert_Team1Only(p) ==
    /\ procs[p].pc = "upsert"
    /\ LET new_rating == NewOf(p, procs[p].team)[procs[p].i]
       IN  player_ratings' =
               update_player_rating(player_ratings, PlayerAt(p),
                                    new_rating.mu, new_rating.sigma,
                                    procs[p].current_games_played + 1)
    /\ procs' = [procs EXCEPT
                    ![p].written = @ \cup {PlayerAt(p)},
                    ![p].pc = IF procs[p].i = 2
                              THEN "team_select" ELSE "games_played",
                    ![p].i = IF procs[p].i = 2 THEN 1 ELSE 2]
    /\ last' = [op |-> "upsert", proc |-> p, player_id |-> PlayerAt(p),
                pre_ratings |-> player_ratings]
    /\ UNCHANGED <<teams, matches, match_players, profiles, ops>>

\* update_ratings, the write loops: one update_player_rating.
Upsert(p) ==
    /\ procs[p].pc = "upsert"
    /\ LET new_rating == NewOf(p, procs[p].team)[procs[p].i]
       IN  player_ratings' =
               update_player_rating(player_ratings, PlayerAt(p),
                                    new_rating.mu, new_rating.sigma,
                                    procs[p].current_games_played + 1)
    /\ procs' = [procs EXCEPT
                    ![p].written = @ \cup {PlayerAt(p)},
                    ![p].pc = IF procs[p].team = 2 /\ procs[p].i = 2
                              THEN "team_select" ELSE "games_played",
                    ![p].team = IF procs[p].i = 2
                                THEN (IF procs[p].team = 1 THEN 2 ELSE 1)
                                ELSE @,
                    ![p].i = IF procs[p].i = 2 THEN 1 ELSE 2]
    /\ last' = [op |-> "upsert", proc |-> p, player_id |-> PlayerAt(p),
                pre_ratings |-> player_ratings]
    /\ UNCHANGED <<teams, matches, match_players, profiles, ops>>

\* The key of the team record process p is writing.
TeamKeyAt(p) ==
    CanonicalPair(PlayersOf(p, procs[p].team)[1].player_id,
                  PlayersOf(p, procs[p].team)[2].player_id)

\* Where process p goes after the team record of its current team.
AfterTeam(p) ==
    IF procs[p].team = 1
    THEN [procs EXCEPT ![p].pc = "team_select", ![p].team = 2]
    ELSE [procs EXCEPT ![p].pc = "done"]

\* create_team, the select: an existing row is returned, else the insert
\* follows.
TeamSelect(p) ==
    /\ procs[p].pc = "team_select"
    /\ procs' = IF ExistingTeam(teams, TeamKeyAt(p)[1], TeamKeyAt(p)[2])
                      # << >>
                THEN AfterTeam(p)
                ELSE [procs EXCEPT ![p].pc = "team_insert"]
    /\ UNCHANGED <<player_ratings, teams, matches, match_players, profiles,
                   ops, last>>

\* create_team, the insert: the row carries the new rating of the team's
\* first player; a key the table refuses ends the call.
TeamInsert(p) ==
    /\ procs[p].pc = "team_insert"
    /\ IF TeamConstraint(TeamKeyAt(p)[1], TeamKeyAt(p)[2])
       THEN /\ teams' = Append(teams,
                            NewTeamRow(teams, TeamKeyAt(p)[1],
                                       TeamKeyAt(p)[2],
                                       NewOf(p, procs[p].team)[1].mu,
                                       NewOf(p, procs[p].team)[1].sigma))
            /\ procs' = AfterTeam(p)
       ELSE /\ teams' = teams
            /\ procs' = [procs EXCEPT ![p].pc = "failed",
                                      ![p].failed_at = "team_insert"]
    /\ UNCHANGED <<player_ratings, matches, match_players, profiles,
                   ops, last>>

\* A handler that takes the ratings written for the match back.
OnFailure_Undo(pr, written) == [q \in (DOMAIN pr) \ written |-> pr[q]]

\* The player ratings after a store request of the call raised: the
\* exception leaves update_ratings and create_match and is turned into a
\* 500 response; nothing is written.
OnFailure(pr, written) == pr

\* The pending store request of process p fails.
Fail(p) ==
    /\ procs[p].pc \in InFlight
    /\ player_ratings' = OnFailure(player_ratings, procs[p].written)
    /\ procs' = [procs EXCEPT ![p].pc = "failed",
                              ![p].failed_at = procs[p].pc]
    /\ last' = [op |-> "fail", proc |-> p, pre_ratings |-> player_ratings]
    /\ UNCHANGED <<teams, matches, match_players, profiles, ops>>

NextConc ==
    \/ \E p \in Procs, m \in ConcMatches : Start(p, m[1], m[2], m[3])
    \/ \E p \in Procs : InsertMatchPlayers(p)
    \/ \E p \in Procs : GetMatch(p)
    \/ \E p \in Procs : ReadRating(p)
    \/ \E p \in Procs : ReadGamesPlayed(p)
    \/ \E p \in Procs : Upsert(p)
    \/ \E p \in Procs : TeamSelect(p)
    \/ \E p \in Procs : TeamInsert(p)
    \/ \E p \in Procs : Fail(p)
    \/ \E m \in ConcMatches : CreateMatch(m[1], m[2], m[3])

SpecConc == Init /\ [][NextConc]_vars

\* The store as match applications alone build it.
NextMatches ==
    \E c \in Compositions, s \in ScoreLists : CreateMatch(c[1], c[2], s)

SpecMatches == Init /\ [][NextMatches]_vars

(***************************************************************************)
(* Vocabulary of the properties                                            *)
(***************************************************************************)
LastIsMatch == last.op = "create_match"

\* The four ids of the last match application, as listed.
LastIds ==
    << last.team1_players[1], last.team1_players[2],
       last.team2_players[1], last.team2_players[2] >>

\* The last match application names four different players.
LastFourDistinct ==
    Cardinality({LastIds[i] : i \in 1..4}) = 4

GamesPlayedIn(pr, p) == IF p \in DOMAIN pr THEN pr[p].games_played ELSE 0
MuIn(pr, p) == IF p \in DOMAIN pr THEN pr[p].mu ELSE MU
SigmaIn(pr, p) == IF p \in DOMAIN pr THEN pr[p].sigma ELSE SIGMA

\* The rows of match m, and the ids it names.
RowsOf(m) == SelectSeq(match_players, LAMBDA r : r.match_id = m)
IdsOf(m) == {RowsOf(m)[i].player_id : i \in DOMAIN RowsOf(m)}

\* The matches player p took part in.
MatchesOf(p) == {m \in 1..Len(matches) : p \in IdsOf(m)}

\* Sets won, counted over the index set of the scores.
SetsWonByTeam1(scores) ==
    Cardinality({i \in DOMAIN scores : scores[i].team1 > scores[i].team2})
SetsWonByTeam2(scores) ==
    Cardinality({i \in DOMAIN scores : scores[i].team2 > scores[i].team1})

\* The numeric value of an id, and the smaller / larger of two ids by it.
IdValue(id) == (16 * id[1]) + id[2]
MinId(a, b) == IF IdValue(a) <= IdValue(b) THEN a ELSE b
MaxId(a, b) == IF IdValue(a) <= IdValue(b) THEN b ELSE a

\* The team rows of table tm that hold the unordered pair {a, b}.
RowsOfPair(tm, a, b) ==
    SelectSeq(tm, LAMBDA t : {t.player_a, t.player_b} = {a, b})

(***************************************************************************)
(* Properties                                                              *)
(***************************************************************************)

\* C1: a match application among four different players that ran to its
\* end left the stored games_played of each of them exactly one above the
\* value before the call (0 for a player without a row); and while every
\* stored match has four different players, each player's games_played is
\* the number of stored matches the player took part in.
C1_GamesPlayedPlusOne ==
    /\ (LastIsMatch /\ LastFourDistinct /\ ~last.raised) =>
          \A i \in 1..4 :
             GamesPlayedIn(player_ratings, LastIds[i])
                = GamesPlayedIn(last.pre_ratings, LastIds[i]) + 1
    /\ (\A m \in 1..Len(matches) : Cardinality(IdsOf(m)) = 4) =>
          \A p \in Players :
             GamesPlayedIn(player_ratings, p) = Cardinality(MatchesOf(p))

\* C1 witness: a second match of a player who already had a row, counted 2.
C1_Witness ==
    /\ LastIsMatch /\ LastFourDistinct /\ ~last.raised
    /\ \A m \in 1..Len(matches) : Cardinality(IdsOf(m)) = 4
    /\ GamesPlayedIn(last.pre_ratings, PA) = 1
    /\ GamesPlayedIn(player_ratings, PA) = 2
    /\ Cardinality(MatchesOf(PA)) = 2

\* The winning and the losing players of the last match application.
LastWinners ==
    IF last.team1_won THEN last.team1_players ELSE last.team2_players
LastLosers ==
    IF last.team1_won THEN last.team2_players ELSE last.team1_players

\* C2: after a match application among four different players whose
\* starting sigmas are positive, the stored mu of each winner is strictly
\* above, and the stored mu of each loser strictly below, the mu the player
\* had before the match.
C2_WinnersUpLosersDown ==
    (/\ LastIsMatch /\ LastFourDistinct
     /\ \A i \in 1..4 : SigmaIn(last.pre_ratings, LastIds[i]) > 0) =>
        \A i \in 1..2 :
           /\ MuIn(player_ratings, LastWinners[i])
                 > MuIn(last.pre_ratings, LastWinners[i])
           /\ MuIn(player_ratings, LastLosers[i])
                 < MuIn(last.pre_ratings, LastLosers[i])

\* C2 witness: team 2 won against a team 1 that was rated higher, all four
\* players having stored ratings from earlier matches.
C2_Witness ==
    /\ LastIsMatch /\ LastFourDistinct
    /\ ~last.team1_won
    /\ \A i \in 1..4 : LastIds[i] \in DOMAIN last.pre_ratings
    /\ last.pre_ratings[LastIds[1]].mu > last.pre_ratings[LastIds[3]].mu
    /\ player_ratings[LastIds[3]].mu > last.pre_ratings[LastIds[3]].mu
    /\ player_ratings[LastIds[1]].mu < last.pre_ratings[LastIds[1]].mu

\* The flag stored for team k of match m: TRUE, FALSE, or "mixed".
FlagOf(m, k) ==
    LET flags == {RowsOf(m)[i].is_winner :
                    i \in {j \in DOMAIN RowsOf(m) : RowsOf(m)[j].team = k}}
    IN  IF flags = {TRUE} THEN "winner"
        ELSE IF flags = {FALSE} THEN "loser" ELSE "mixed"

\* C3: team 1 is the winner of a match exactly when it won strictly more
\* sets than team 2, a set of equal points counting for neither: this is the
\* flag stored for every match, and the team the last application passed to
\* the rating model as the winner.
C3_Team1WinsIffMoreSets ==
    /\ \A m \in 1..Len(matches) :
          (FlagOf(m, 1) = "winner")
             <=> (SetsWonByTeam1(matches[m].scores)
                     > SetsWonByTeam2(matches[m].scores))
    /\ LastIsMatch =>
          ((last.team1_won /\ last.winner = 1)
              <=> (SetsWonByTeam1(last.scores) > SetsWonByTeam2(last.scores)))

\* C3 witness: a stored match with a set of equal points that team 1 won 1-0.
C3_Witness ==
    /\ LastIsMatch
    /\ \E i \in DOMAIN last.scores : last.scores[i].team1 = last.scores[i].team2
    /\ SetsWonByTeam1(last.scores) = 1
    /\ SetsWonByTeam2(last.scores) = 0
    /\ FlagOf(last.match_id, 1) = "winner"

\* C4: when both teams won the same number of sets, team1_won is false,
\* team 2's players are stored as the winners and team 1's as the losers,
\* and team 2 is rated as the winning team.
C4_SplitGoesToTeam2 ==
    /\ \A m \in 1..Len(matches) :
          (SetsWonByTeam1(matches[m].scores)
              = SetsWonByTeam2(matches[m].scores)) =>
             (FlagOf(m, 2) = "winner" /\ FlagOf(m, 1) = "loser")
    /\ (LastIsMatch
        /\ SetsWonByTeam1(last.scores) = SetsWonByTeam2(last.scores)) =>
          /\ ~last.team1_won
          /\ last.winner = 2
          /\ << last.new_team2_ratings, last.new_team1_ratings >>
                = rate(<< last.team2_ratings, last.team1_ratings >>)

\* C4 witness: a 1-1 split after which team 2's players went up.
C4_Witness ==
    /\ LastIsMatch /\ LastFourDistinct
    /\ SetsWonByTeam1(last.scores) = 1
    /\ SetsWonByTeam2(last.scores) = 1
    /\ FlagOf(last.match_id, 2) = "winner"
    /\ MuIn(player_ratings, last.team2_players[1])
          > MuIn(last.pre_ratings, last.team2_players[1])

\* The players and the new ratings of team k in the last match application.
LastTeam(k) == IF k = 1 THEN last.team1_players ELSE last.team2_players
LastNew(k) == IF k = 1 THEN last.new_team1_ratings ELSE last.new_team2_ratings

\* The games_played of the pair's team record in table tm, 0 without one.
TeamGamesIn(tm, a, b) ==
    IF RowsOfPair(tm, a, b) = << >> THEN 0
    ELSE RowsOfPair(tm, a, b)[1].games_played

\* C5: a match application in which two of the four ids coincide fails, and
\* leaves the store as it was: no match record, no match_players row, no
\* player rating and no team record is written.
C5_DuplicateIdsRejected ==
    (LastIsMatch /\ ~LastFourDistinct) =>
        /\ last.raised
        /\ \A i \in DOMAIN matches : matches[i].id # last.match_id
        /\ RowsOf(last.match_id) = << >>
        /\ player_ratings = last.pre_ratings
        /\ teams = last.pre_teams

\* C6: a match application raises the games_played of the team record of
\* each of its two pairs by exactly 1, from 0 when the pair had no record.
C6_TeamGamesPlayedPlusOne ==
    (LastIsMatch /\ LastFourDistinct /\ ~last.raised) =>
        \A k \in 1..2 :
           /\ RowsOfPair(teams, LastTeam(k)[1], LastTeam(k)[2]) # << >>
           /\ TeamGamesIn(teams, LastTeam(k)[1], LastTeam(k)[2])
                 = TeamGamesIn(last.pre_teams, LastTeam(k)[1],
                               LastTeam(k)[2]) + 1

\* C7: when a pair that already has a team record plays another match, the
\* record's mu and sigma are replaced by the outputs of that match.
C7_TeamRecordReplaced ==
    (LastIsMatch /\ LastFourDistinct /\ ~last.raised) =>
        \A k \in 1..2 :
           RowsOfPair(last.pre_teams, LastTeam(k)[1], LastTeam(k)[2]) # << >>
              => LET row == RowsOfPair(teams, LastTeam(k)[1],
                                       LastTeam(k)[2])[1]
                 IN  /\ row.mu = LastNew(k)[1].mu
                     /\ row.sigma = LastNew(k)[1].sigma

\* Team k's record was inserted by the last match application.
LastInserted(k) ==
    /\ LastIsMatch
    /\ RowsOfPair(last.pre_teams, LastTeam(k)[1], LastTeam(k)[2]) = << >>
    /\ RowsOfPair(teams, LastTeam(k)[1], LastTeam(k)[2]) # << >>

\* C8: a team record written by a match application carries the mu and
\* sigma the rating model returned for the first listed player of that
\* team, which, among four different players, is that player's stored
\* post-match rating.
C8_TeamRecordFromFirstPlayer ==
    \A k \in 1..2 :
       LastInserted(k) =>
          LET row == RowsOfPair(teams, LastTeam(k)[1], LastTeam(k)[2])[1]
          IN  /\ row.mu = LastNew(k)[1].mu
              /\ row.sigma = LastNew(k)[1].sigma
              /\ LastFourDistinct =>
                    /\ row.mu = player_ratings[LastTeam(k)[1]].mu
                    /\ row.sigma = player_ratings[LastTeam(k)[1]].sigma

\* C8 witness: a record inserted for a team whose two members left the
\* match with different ratings; it carries the first member's.
C8_Witness ==
    /\ LastInserted(1) /\ LastFourDistinct
    /\ player_ratings[LastTeam(1)[1]].mu # player_ratings[LastTeam(1)[2]].mu
    /\ RowsOfPair(teams, LastTeam(1)[1], LastTeam(1)[2])[1].mu
          = player_ratings[LastTeam(1)[1]].mu
    /\ (player_ratings[LastTeam(1)[1]].mu + player_ratings[LastTeam(1)[2]].mu)
          # 2 * RowsOfPair(teams, LastTeam(1)[1], LastTeam(1)[2])[1].mu

LastIsCreateTeam == last.op = "create_team"

\* C9: every stored team record has player_a < player_b as strings; a
\* create_team call for two different players succeeds with the record keyed
\* by (smaller id, larger id); and the call with the arguments in the other
\* order resolves to that same record and inserts nothing.
C9_TeamKeyOrderIndependent ==
    /\ \A i \in DOMAIN teams :
          StrGreater(teams[i].player_b, teams[i].player_a)
    /\ (LastIsCreateTeam /\ last.player_a # last.player_b) =>
          /\ ~last.raised
          /\ Len(last.ret) = 1
          /\ last.ret[1].player_a = MinId(last.player_a, last.player_b)
          /\ last.ret[1].player_b = MaxId(last.player_a, last.player_b)
          /\ \E i \in DOMAIN teams : teams[i] = last.ret[1]
          /\ create_team(teams, last.player_b, last.player_a,
                         last.mu, last.sigma)
                = [teams |-> teams, ret |-> last.ret, raised |-> FALSE]

\* C9 witness: create_team(a, b) with str(a) > str(b) inserted the record
\* under (b, a).
C9_Witness ==
    /\ LastIsCreateTeam
    /\ StrGreater(last.player_a, last.player_b)
    /\ Len(teams) = Len(last.pre_teams) + 1
    /\ teams[Len(teams)].player_a = last.player_b
    /\ teams[Len(teams)].player_b = last.player_a

\* C10: the store holds at most one team record per unordered pair of
\* players, and a create_team call for a pair that has a record returns
\* that record and inserts nothing.
C10_OneTeamPerPair ==
    /\ \A i, j \in DOMAIN teams :
          i # j => {teams[i].player_a, teams[i].player_b}
                     # {teams[j].player_a, teams[j].player_b}
    /\ (/\ LastIsCreateTeam
        /\ RowsOfPair(last.pre_teams, last.player_a, last.player_b) # << >>) =>
          /\ teams = last.pre_teams
          /\ last.ret
                = << RowsOfPair(last.pre_teams, last.player_a,
                                last.player_b)[1] >>

\* C10 witness: create_team for a pair whose record an earlier match had
\* inserted, named in the other order; the record came back unchanged.
C10_Witness ==
    /\ LastIsCreateTeam
    /\ Len(matches) > 0
    /\ StrGreater(last.player_a, last.player_b)
    /\ RowsOfPair(last.pre_teams, last.player_a, last.player_b) # << >>
    /\ teams = last.pre_teams
    /\ last.ret[1].mu # last.mu

\* The ratings update_ratings read for the four rows of the last match
\* application, in the order of LastIds.
LastUsed == last.team1_ratings \o last.team2_ratings

\* The players of the last match application that had no rating row.
LastUnrated == {i \in 1..4 : LastIds[i] \notin DOMAIN last.pre_ratings}

\* C15: a participant without a stored rating is no error: the match
\* application among four different players ran to its end, it used the
\* default prior (mu 25.0, sigma 25/3, games_played 0) for that player,
\* and afterwards every one of the four players has a rating row, with
\* games_played = 1 for those that had none.
C15_UnratedGetsDefaultPrior ==
    (LastIsMatch /\ LastFourDistinct) =>
        /\ ~last.raised
        /\ \A i \in 1..4 : LastIds[i] \in DOMAIN player_ratings
        /\ \A i \in LastUnrated :
              /\ LastUsed[i] = [mu |-> 25 * Scale,
                                sigma |-> (25 * Scale) \div 3]
              /\ GamesPlayedIn(last.pre_ratings, LastIds[i]) = 0
              /\ player_ratings[LastIds[i]].games_played = 1

\* C15 witness: a match of three rated players with one player that had
\* no row; all four have a row afterwards.
C15_Witness ==
    /\ LastIsMatch /\ LastFourDistinct /\ ~last.raised
    /\ Cardinality(LastUnrated) = 1
    /\ \A i \in 1..4 : LastIds[i] \in DOMAIN player_ratings
    /\ \A i \in LastUnrated : player_ratings[LastIds[i]].games_played = 1

\* The players that were listed next to p in a team of a stored match.
Partners(p) ==
    {q \in Players :
        \E i, j \in DOMAIN match_players :
            /\ i # j
            /\ match_players[i].match_id = match_players[j].match_id
            /\ match_players[i].team = match_players[j].team
            /\ match_players[i].player_id = p
            /\ match_players[j].player_id = q}

\* The team rows that contain p.
TeamRowsOf(p) ==
    {i \in DOMAIN teams : p \in {teams[i].player_a, teams[i].player_b}}

\* Every stored match application ran to its end: no team named one
\* player twice, the one case in which the team write raises.
AllApplicationsCompleted == \A p \in Players : p \notin Partners(p)

\* C16: after a completed match application a team record exists for each
\* of its two pairs; and in a store built by completed match applications
\* a player who played with k different partners is in exactly k team
\* records, one per partner.
C16_TeamRecordPerPair ==
    /\ (LastIsMatch /\ ~last.raised) =>
          \A k \in 1..2 :
             Len(RowsOfPair(teams, LastTeam(k)[1], LastTeam(k)[2])) = 1
    /\ AllApplicationsCompleted =>
          \A p \in Players :
             /\ Cardinality(TeamRowsOf(p)) = Cardinality(Partners(p))
             /\ \A q \in Partners(p) : Len(RowsOfPair(teams, p, q)) = 1

\* C16 witness: after two completed matches with different partners PA is
\* in two team records, the second one created by the last match.
C16_Witness ==
    /\ LastIsMatch /\ ~last.raised /\ AllApplicationsCompleted
    /\ Partners(PA) = {PB, PC}
    /\ Cardinality(TeamRowsOf(PA)) = 2
    /\ Len(last.pre_teams) < Len(teams)

LastIsReapply == last.op = "update_ratings"

\* The new ratings of the last application, in the order of LastIds.
LastComputed == last.new_team1_ratings \o last.new_team2_ratings

\* C14: update_ratings called again for a stored match of four different
\* players is applied like a new match: no store operation raises, each
\* participant's games_played goes up by one again, and the stored mu and
\* sigma become what the rating model returns for the ratings stored by
\* the earlier application; so a store holding one match that was applied
\* n times shows games_played = n for its players.
C14_ReapplyCountsAgain ==
    /\ (LastIsReapply /\ LastFourDistinct) =>
          /\ ~last.raised
          /\ \A i \in 1..4 :
                /\ GamesPlayedIn(player_ratings, LastIds[i])
                      = GamesPlayedIn(last.pre_ratings, LastIds[i]) + 1
                /\ LastUsed[i] = Rating(MuIn(last.pre_ratings, LastIds[i]),
                                        SigmaIn(last.pre_ratings, LastIds[i]))
                /\ MuIn(player_ratings, LastIds[i]) = LastComputed[i].mu
                /\ SigmaIn(player_ratings, LastIds[i]) = LastComputed[i].sigma
                /\ MuIn(player_ratings, LastIds[i])
                      # MuIn(last.pre_ratings, LastIds[i])
    /\ (Len(matches) = 1 /\ Cardinality(IdsOf(1)) = 4) =>
          \A p \in IdsOf(1) : GamesPlayedIn(player_ratings, p) = ops

\* C14 witness: one stored match, applied by create_match and then once
\* more by update_ratings: its players show games_played = 2.
C14_Witness ==
    /\ LastIsReapply /\ LastFourDistinct /\ ~last.raised
    /\ Len(matches) = 1
    /\ ops = 2
    /\ \A i \in 1..4 : GamesPlayedIn(player_ratings, LastIds[i]) = 2

LastIsCompatibility == last.op = "get_compatibility_scores"
LastIsRecommendation == last.op = "get_recommended_partners"

\* The stored mu of a player, 25.0 for a player without a rating row.
StoredMuOr25(p) ==
    IF p \in DOMAIN player_ratings THEN player_ratings[p].mu ELSE 25 * Scale

\* The other member of team row i, seen from p.
OtherOf(i, p) ==
    IF teams[i].player_a = p THEN teams[i].player_b ELSE teams[i].player_a

\* The team rows of p whose other member is q.
TeamRowsWith(p, q) == {i \in TeamRowsOf(p) : OtherOf(i, p) = q}

\* C17: every entry returned by get_compatibility_scores(p), and every
\* row of the store query behind it, has avg_individual_rating =
\* (mu_p + mu_partner) / 2 and compatibility_score = team mu -
\* avg_individual_rating, where team mu is the mu of a team record of p
\* and the partner, and the mu of a player without a rating row is 25.0.
C17_CompatibilityFormula ==
    LastIsCompatibility =>
        /\ \A k \in DOMAIN last.ret :
              /\ 2 * last.ret[k].avg_individual_rating
                    = Halves(StoredMuOr25(last.player_id))
                        + Halves(StoredMuOr25(last.ret[k].partner))
              /\ last.ret[k].compatibility_score
                    = Halves(last.ret[k].team_rating)
                        - last.ret[k].avg_individual_rating
              /\ \E i \in TeamRowsWith(last.player_id, last.ret[k].partner) :
                    teams[i].mu = last.ret[k].team_rating
        /\ \A k \in DOMAIN last.rows :
              /\ 2 * last.rows[k].avg_individual_rating
                    = Halves(StoredMuOr25(last.player_id))
                        + Halves(StoredMuOr25(last.rows[k].partner_id))
              /\ last.rows[k].compatibility_score
                    = Halves(last.rows[k].team_rating)
                        - last.rows[k].avg_individual_rating

\* C17 witness: a query that returned two entries for a rated player, one
\* with a positive and one with a negative compatibility_score.
C17_Witness ==
    /\ LastIsCompatibility
    /\ last.player_id \in DOMAIN player_ratings
    /\ Len(last.ret) = 2
    /\ last.ret[1].compatibility_score > 0
    /\ last.ret[2].compatibility_score < 0

\* C18, as claimed: get_compatibility_scores(p) returns exactly one entry
\* for every stored team record with p as player_a or player_b, with the
\* other member as partner, and no entry for any other team.
C18_OneEntryPerTeam ==
    LastIsCompatibility =>
        /\ Len(last.ret) = Cardinality(TeamRowsOf(last.player_id))
        /\ \A i \in TeamRowsOf(last.player_id) :
              Cardinality({k \in DOMAIN last.ret :
                              last.ret[k].partner = OtherOf(i, last.player_id)})
                 = 1

\* C18, amended: the store query of get_compatibility_scores(p) yields
\* exactly one row for every stored team record with p as player_a or
\* player_b, with the other member as partner_id, and no row for any
\* other team; the list returned holds, in the same order, the rows whose
\* partner has a profile, and omits the teams whose partner has none.
C18_OneEntryPerTeamWithProfile ==
    LastIsCompatibility =>
        /\ Len(last.rows) = Cardinality(TeamRowsOf(last.player_id))
        /\ \A i \in TeamRowsOf(last.player_id) :
              Cardinality({k \in DOMAIN last.rows :
                              last.rows[k].partner_id
                                 = OtherOf(i, last.player_id)})
                 = 1
        /\ LET kept == SelectSeq(last.rows,
                                 LAMBDA row : row.partner_id \in profiles)
           IN  /\ Len(last.ret) = Len(kept)
               /\ \A k \in DOMAIN kept :
                     /\ last.ret[k].partner = kept[k].partner_id
                     /\ last.ret[k].team_rating = kept[k].team_rating
                     /\ last.ret[k].compatibility_score
                           = kept[k].compatibility_score

\* C18 witness: PA is in three team records, next to them teams without
\* PA are stored; the partner of one record has no profile and the query
\* returned the other two.
C18_Witness ==
    /\ LastIsCompatibility
    /\ last.player_id = PA
    /\ Cardinality(TeamRowsOf(PA)) = 3
    /\ Len(teams) > 3
    /\ PD \notin profiles
    /\ Len(last.rows) = 3
    /\ Len(last.ret) = 2

\* The entries at k and k + 1 are in non-increasing order of score.
NonIncreasing(entries) ==
    \A k \in 1..(Len(entries) - 1) :
        entries[k].compatibility_score >= entries[k + 1].compatibility_score

\* C19: the lists returned by get_compatibility_scores and
\* get_recommended_partners are ordered by compatibility_score, highest
\* first: each entry's score is >= the next one's.
C19_SortedByScore ==
    (LastIsCompatibility \/ LastIsRecommendation) =>
        /\ NonIncreasing(last.ret)
        /\ NonIncreasing(last.rows)

\* C19 witness: two entries of different score were returned, the first
\* one from the team record stored later.
C19_Witness ==
    /\ LastIsCompatibility
    /\ Len(last.ret) = 2
    /\ last.ret[1].compatibility_score > last.ret[2].compatibility_score
    /\ \E i \in TeamRowsWith(last.player_id, last.ret[1].partner),
          j \in TeamRowsWith(last.player_id, last.ret[2].partner) : i > j

\* C20: every entry returned by get_recommended_partners(p, limit,
\* min_games) comes from a team record that contains p and has
\* games_played >= min_games; when min_games is above the games_played of
\* every team record of p the result is empty.
C20_MinGamesFilter ==
    LastIsRecommendation =>
        /\ \A k \in DOMAIN last.ret :
              \E i \in TeamRowsWith(last.player_id, last.ret[k].partner) :
                  /\ teams[i].games_played >= last.min_games
                  /\ teams[i].games_played
                        = last.ret[k].games_played_together
        /\ (\A i \in TeamRowsOf(last.player_id) :
               teams[i].games_played < last.min_games)
              => last.ret = << >>

\* C20 witness: with min_games = 3 the team record with 5 games was
\* returned and a team record of the player with fewer games was not.
C20_Witness ==
    /\ LastIsRecommendation
    /\ last.min_games = 3
    /\ Len(last.ret) = 1
    /\ last.ret[1].games_played_together = 5
    /\ \E i \in TeamRowsOf(last.player_id) : teams[i].games_played < 3

\* The team records of p with at least min_games games.
CandidatesOf(p, min_games) ==
    {i \in TeamRowsOf(p) : teams[i].games_played >= min_games}

\* What the claim expects of limit with n candidates.
ExpectedLen(limit, n) ==
    IF limit <= 0 THEN 0 ELSE IF limit < n THEN limit ELSE n

\* The sorted candidates of the last get_recommended_partners call: the
\* store query with a limit as large as the teams table.
LastCandidates ==
    db_get_recommended_partners(teams, player_ratings, last.player_id,
                                Len(teams), last.min_games)

\* C21: get_recommended_partners(p, limit, min_games) yields the first
\* min(limit, n) of the n sorted candidates when limit > 0, all n when
\* limit > n, and the empty list for every limit <= 0, negative limits
\* included; this is the list of the store query, and the list returned
\* when every partner has a profile.
C21_LimitTruncates ==
    LastIsRecommendation =>
        LET n == Cardinality(CandidatesOf(last.player_id, last.min_games))
        IN  /\ Len(LastCandidates) = n
            /\ Len(last.rows) = ExpectedLen(last.limit, n)
            /\ last.rows = SubSeq(LastCandidates, 1, Len(last.rows))
            /\ (\A k \in DOMAIN last.rows :
                   last.rows[k].partner_id \in profiles)
                  => Len(last.ret) = ExpectedLen(last.limit, n)

LastIsRankings == last.op = "get_team_rankings"

\* The team rows that entry e of the rankings stands for.
RowsListed(e) ==
    {i \in DOMAIN teams :
        /\ teams[i].player_a = e.player_a.id
        /\ teams[i].player_b = e.player_b.id
        /\ teams[i].mu = e.team_rating
        /\ teams[i].games_played = e.games_played}

\* C22: get_team_rankings(limit) returns at most limit entries, all team
\* records when there are no more than limit; each entry stands for a
\* stored team record, no record is listed twice, the entries are in
\* non-increasing order of team mu, and no record left out has a mu above
\* that of a listed one; every row the store handed out is listed, a member
\* without a profile under the name "Unknown".
C22_TopTeamsByMu ==
    LastIsRankings =>
        /\ Len(last.ret) <= last.limit
        /\ Len(last.ret) = ExpectedLen(last.limit, Len(teams))
        /\ Len(last.ret) = Len(last.rows)
        /\ \A k \in 1..(Len(last.ret) - 1) :
              last.ret[k].team_rating >= last.ret[k + 1].team_rating
        /\ \A k \in DOMAIN last.ret :
              /\ RowsListed(last.ret[k]) # {}
              /\ \A l \in DOMAIN last.ret :
                    k # l => RowsListed(last.ret[k]) # RowsListed(last.ret[l])
              /\ (last.ret[k].player_a.name = "Unknown")
                    <=> (last.ret[k].player_a.id \notin profiles)
              /\ (last.ret[k].player_b.name = "Unknown")
                    <=> (last.ret[k].player_b.id \notin profiles)
        /\ \A i \in DOMAIN teams :
              (\A k \in DOMAIN last.ret : i \notin RowsListed(last.ret[k]))
                 => \A k \in DOMAIN last.ret :
                       teams[i].mu <= last.ret[k].team_rating

\* C22 witness: of more than two team records the two of highest mu were
\* returned, the first one stored after the second; one of them has a
\* member without a profile, listed as "Unknown".
C22_Witness ==
    /\ LastIsRankings
    /\ last.limit = 2
    /\ Len(teams) > 2
    /\ Len(last.ret) = 2
    /\ last.ret[1].team_rating > last.ret[2].team_rating
    /\ \E i \in RowsListed(last.ret[1]), j \in RowsListed(last.ret[2]) : i > j
    /\ \E k \in 1..2 : last.ret[k].player_b.name = "Unknown"
    /\ \E i \in DOMAIN teams : teams[i].mu < last.ret[2].team_rating

\* C23: after a match application among four different players the
\* stored sigma of each of them is at most the sigma the player had before
\* the match (25/3 for a player without a row), and above 0.
C23_SigmaNeverGrows ==
    (LastIsMatch /\ LastFourDistinct) =>
        \A i \in 1..4 :
           /\ SigmaIn(player_ratings, LastIds[i])
                 <= SigmaIn(last.pre_ratings, LastIds[i])
           /\ SigmaIn(player_ratings, LastIds[i]) > 0

\* The operations of app/core/recommendations.py.
QueryOps ==
    {"get_compatibility_scores", "get_recommended_partners",
     "get_team_rankings"}

\* C24: a call of get_compatibility_scores, get_recommended_partners or
\* get_team_rankings leaves every player rating, every team record and
\* every match record, the rows of its players included, as they were.
C24_QueriesReadOnly ==
    [][(last'.op \in QueryOps /\ last' # last) =>
          /\ player_ratings' = player_ratings
          /\ teams' = teams
          /\ matches' = matches
          /\ match_players' = match_players
      ]_vars

\* C24 witness: a query answered with entries from a store that holds
\* ratings, more team records than it listed, and matches.
C24_Witness ==
    /\ last.op \in QueryOps
    /\ Len(last.ret) > 0
    /\ Len(last.ret) < Len(teams)
    /\ Len(matches) > 0
    /\ DOMAIN player_ratings # {}

LastIsPost == last.op = "post_match"

\* C25: a submission in which team 1 or team 2 has not exactly 2 players
\* is answered 400, "Each team must have exactly 2 players", and leaves
\* the matches, their players' rows, the player ratings and the team
\* records as they were; no other submission is answered 400.
C25_TeamSizeRejected ==
    LastIsPost =>
        /\ (Len(last.team1_players) # 2 \/ Len(last.team2_players) # 2) =>
              /\ last.status_code = 400
              /\ last.detail = "Each team must have exactly 2 players"
              /\ Database = last.pre
        /\ (Len(last.team1_players) = 2 /\ Len(last.team2_players) = 2) =>
              /\ last.status_code # 400
              /\ Len(matches) = Len(last.pre.matches) + 1

\* C25 witness: after a stored match, a submission with two players in
\* team 1 and three in team 2 was answered 400 and wrote nothing.
C25_Witness ==
    /\ LastIsPost
    /\ Len(last.team1_players) = 2
    /\ Len(last.team2_players) = 3
    /\ last.status_code = 400
    /\ Len(matches) = 1
    /\ Database = last.pre

\* The rows of team k of match m.
TeamRowsIn(m, k) == SelectSeq(RowsOf(m), LAMBDA r : r.team = k)

\* C26: every match stored by create_match has two rows for team 1 with
\* one and the same is_winner flag, two rows for team 2 with one and the
\* same flag, and the flags of the two teams are opposite: exactly one
\* team is the winner.
C26_ExactlyOneWinningTeam ==
    \A m \in 1..Len(matches) :
       /\ Len(TeamRowsIn(m, 1)) = 2
       /\ Len(TeamRowsIn(m, 2)) = 2
       /\ TeamRowsIn(m, 1)[1].is_winner = TeamRowsIn(m, 1)[2].is_winner
       /\ TeamRowsIn(m, 2)[1].is_winner = TeamRowsIn(m, 2)[2].is_winner
       /\ TeamRowsIn(m, 1)[1].is_winner # TeamRowsIn(m, 2)[1].is_winner
       /\ Cardinality({k \in 1..2 : FlagOf(m, k) = "winner"}) = 1

\* C26 witness: two stored matches, the first won by team 1 and the
\* second, in which a player is on both teams, by team 2.
C26_Witness ==
    /\ Len(matches) = 2
    /\ FlagOf(1, 1) = "winner" /\ FlagOf(1, 2) = "loser"
    /\ FlagOf(2, 1) = "loser" /\ FlagOf(2, 2) = "winner"
    /\ Cardinality(IdsOf(2)) = 3

\* The rating a player had before the last match application.
PreRating(p) == Rating(MuIn(last.pre_ratings, p), SigmaIn(last.pre_ratings, p))

\* The pre-match ratings of the winning and of the losing team of the last
\* match application, by the is_winner flags stored for the match.
PreWinners ==
    IF FlagOf(last.match_id, 1) = "winner"
    THEN << PreRating(LastIds[1]), PreRating(LastIds[2]) >>
    ELSE << PreRating(LastIds[3]), PreRating(LastIds[4]) >>
PreLosers ==
    IF FlagOf(last.match_id, 1) = "winner"
    THEN << PreRating(LastIds[3]), PreRating(LastIds[4]) >>
    ELSE << PreRating(LastIds[1]), PreRating(LastIds[2]) >>

\* The scaled difference of the team means the model works with.
PreX ==
    ((((PreWinners[1].mu + PreWinners[2].mu)
         - (PreLosers[1].mu + PreLosers[2].mu)) - DrawMargin) * Scale)
       \div ISqrt(TotalVar(PreWinners, PreLosers))

\* The model's output for one player, from the player's own rating r:
\* sign is 1 for a winner and -1 for a loser.
OwnOutput(r, sign, c2, x) ==
    Rating(r.mu + (sign * Shift(r, ISqrt(c2), VWin(x))),
           NewSigma(r, c2, WWin(x)))

\* C27: whichever team won, the rating stored for each of four different
\* players is the model's output for that player's own pre-match rating,
\* upwards for the players of the team stored with is_winner = true and
\* downwards for the others; the ratings read, the outputs and the stored
\* rows agree position by position, and the team stored as the winner is
\* the team passed to the model first.
C27_OwnRatingOwnOutput ==
    (LastIsMatch /\ LastFourDistinct) =>
        /\ (last.winner = 1) <=> (FlagOf(last.match_id, 1) = "winner")
        /\ (last.winner = 2) <=> (FlagOf(last.match_id, 2) = "winner")
        /\ \A i \in 1..4 :
              /\ LastUsed[i] = PreRating(LastIds[i])
              /\ player_ratings[LastIds[i]].mu = LastComputed[i].mu
              /\ player_ratings[LastIds[i]].sigma = LastComputed[i].sigma
              /\ LastComputed[i]
                    = OwnOutput(PreRating(LastIds[i]),
                                IF FlagOf(last.match_id, (i + 1) \div 2)
                                      = "winner"
                                THEN 1 ELSE -1,
                                TotalVar(PreWinners, PreLosers), PreX)

\* C27 witness: team 2 won; the two members of each team came with
\* different ratings and left with different ratings.
C27_Witness ==
    /\ LastIsMatch /\ LastFourDistinct
    /\ last.winner = 2
    /\ PreRating(LastIds[1]) # PreRating(LastIds[2])
    /\ PreRating(LastIds[3]).mu # PreRating(LastIds[4]).mu
    /\ player_ratings[LastIds[3]].mu > PreRating(LastIds[3]).mu
    /\ player_ratings[LastIds[3]].mu # player_ratings[LastIds[4]].mu
    /\ player_ratings[LastIds[1]].mu < PreRating(LastIds[1]).mu
    /\ player_ratings[LastIds[1]].mu # player_ratings[LastIds[2]].mu

LastIsUpsert == last.op = "upsert"
LastIsFail == last.op = "fail"


\* The rows of the match process p is applying, team 1 first, and the
\* ratings it read and computed for them.
RowsAt(p) == procs[p].team1_players \o procs[p].team2_players
ReadAt(p) == procs[p].team1_ratings \o procs[p].team2_ratings
ComputedAt(p) == procs[p].new_team1_ratings \o procs[p].new_team2_ratings

\* The place of player x in the match of process p.
PlaceOf(p, x) == CHOOSE k \in DOMAIN RowsAt(p) : RowsAt(p)[k].player_id = x

\* C11: an upsert of a match application that runs side by side with
\* others stores the mu and sigma the application computed from the
\* ratings it read at its start, whatever another application wrote for
\* the player in between; the later write replaces the earlier one, and
\* the stored mu and sigma hold the result of one match only.
C11_LastWriteWins ==
    LastIsUpsert =>
        LET p == last.proc
            x == last.player_id
            k == PlaceOf(p, x)
            new == NewRatings(procs[p].team1_players, procs[p].team1_ratings,
                              procs[p].team2_ratings)
        IN  /\ ComputedAt(p) = new.team1 \o new.team2
            /\ player_ratings[x].mu = ComputedAt(p)[k].mu
            /\ player_ratings[x].sigma = ComputedAt(p)[k].sigma

\* C11 witness: two applications read PA without a rating row, the other
\* one wrote PA's row first, and the upsert of this one replaced it: the
\* stored mu is the one computed from the default prior, not from the row
\* the other application wrote.
C11_Witness ==
    /\ LastIsUpsert
    /\ last.player_id = PA
    /\ ReadAt(last.proc)[PlaceOf(last.proc, PA)] = Rating(MU, SIGMA)
    /\ PA \in DOMAIN last.pre_ratings
    /\ last.pre_ratings[PA].games_played = 1
    /\ last.pre_ratings[PA].mu # MU
    /\ player_ratings[PA].mu # last.pre_ratings[PA].mu
    /\ player_ratings[PA].mu
          = ComputedAt(last.proc)[PlaceOf(last.proc, PA)].mu

\* C28: the games_played an upsert stores is one above the games_played
\* of the row from which the application read the rating it computed the
\* stored mu and sigma from (0 without a row): counter and rating come
\* from the same state of the player, so the counter is the number of
\* results in the stored rating, match applications running side by side
\* included.
C28_CounterMatchesRating ==
    LastIsUpsert =>
        player_ratings[last.player_id].games_played
           = procs[last.proc].games_at_read[PlaceOf(last.proc, last.player_id)]
               + 1

\* C29: in every state, match applications running side by side
\* included, the store holds at most one team record for an unordered pair
\* of players, also when another create_team call for the pair comes
\* between the existence check and the insert of a call.
C29_OneTeamPerPairSideBySide ==
    \A a, b \in ConcPlayers : Len(RowsOfPair(teams, a, b)) <= 1

\* The players of the match of process p in the order of the write
\* loops: team 1's two, then team 2's two.
WriteOrder(p) == [k \in DOMAIN RowsAt(p) |-> RowsAt(p)[k].player_id]

\* The ratings process p has written are those of the first n players of
\* its write order.
WrittenFirst(p, n) == procs[p].written = {WriteOrder(p)[k] : k \in 1..n}

\* The match row of process p and the four rows of its players are stored.
MatchStored(p) ==
    /\ \E k \in DOMAIN matches : matches[k].id = procs[p].match_id
    /\ Len(RowsOf(procs[p].match_id)) = 4

\* The team record of team k of the match of process p is stored.
TeamStored(p, k) ==
    LET key == CanonicalPair(PlayersOf(p, k)[1].player_id,
                             PlayersOf(p, k)[2].player_id)
    IN  RowsOfPair(teams, key[1], key[2]) # << >>

\* Process p is at its team records.
AtTeams(p) == procs[p].pc \in {"team_select", "team_insert", "done"}

\* C30 (states): what a match application has written so far is an
\* initial part of the fixed order.
C30_OrderSoFar ==
    \A p \in Procs :
        /\ procs[p].pc \notin {"idle", "failed"} =>
               \E k \in DOMAIN matches : matches[k].id = procs[p].match_id
        /\ procs[p].pc \notin {"idle", "failed", "match_players"} =>
               MatchStored(p)
        /\ \E n \in 0..Len(RowsAt(p)) : WrittenFirst(p, n)
        /\ procs[p].written # {} => MatchStored(p)
        /\ AtTeams(p) =>
               /\ WrittenFirst(p, 4)
               /\ \A x \in procs[p].written : x \in DOMAIN player_ratings
        /\ AtTeams(p) /\ (procs[p].team = 2 \/ procs[p].pc = "done") =>
               TeamStored(p, 1)
        /\ procs[p].pc = "done" => TeamStored(p, 2)

\* C30 (steps): a rating write of the application comes after its match
\* rows and writes the next player of the order; a team record of the
\* application is written after all four rating writes, team 2's after
\* team 1's.
C30_OrderOfSteps ==
    \A p \in Procs :
        /\ procs[p].pc = "upsert" /\ procs'[p] # procs[p]
              /\ player_ratings' # player_ratings =>
               /\ MatchStored(p)
               /\ teams' = teams
               /\ \E n \in 0..3 :
                      /\ WrittenFirst(p, n)
                      /\ procs'[p].written
                            = procs[p].written \cup {WriteOrder(p)[n + 1]}
        /\ procs'[p] # procs[p] /\ teams' # teams =>
               /\ procs[p].pc = "team_insert"
               /\ MatchStored(p)
               /\ WrittenFirst(p, 4)
               /\ player_ratings' = player_ratings
               /\ procs[p].team = 2 => TeamStored(p, 1)

\* C30: within one match application the writes reach the store in a
\* fixed order: the match row and the four rows of its players, then the
\* ratings of team 1's players, then those of team 2's players, then team
\* 1's team record, then team 2's; whenever the application is at or past
\* a team record, the match rows and all four rating writes of the match
\* are done.
C30_FixedWriteOrder == []C30_OrderSoFar /\ [][C30_OrderOfSteps]_vars

\* C30 witness: an application has finished; the four ratings it computed
\* are stored, and so are the two team records carrying the new rating of
\* each team's first player.
C30_Witness ==
    \E p \in Procs :
        /\ procs[p].pc = "done"
        /\ MatchStored(p)
        /\ WrittenFirst(p, 4)
        /\ \A k \in 1..4 :
              player_ratings[WriteOrder(p)[k]].mu = ComputedAt(p)[k].mu
        /\ \A k \in 1..2 :
              LET key == CanonicalPair(PlayersOf(p, k)[1].player_id,
                                       PlayersOf(p, k)[2].player_id)
              IN  /\ Len(RowsOfPair(teams, key[1], key[2])) = 1
                  /\ RowsOfPair(teams, key[1], key[2])[1].mu
                        = NewOf(p, k)[1].mu

\* C12: from one state of the store to the next no player's stored
\* games_played decreases, match applications running side by side
\* included.
C12_GamesPlayedNeverDecreases ==
    [][\A x \in ConcPlayers :
          GamesPlayedIn(player_ratings', x) >= GamesPlayedIn(player_ratings, x)
      ]_vars

\* C13: when a store request of a match application fails, the tables
\* stay as the requests before it left them: the ratings already written
\* for the match are still stored, and nothing is taken back.
C13_NoRollback ==
    LastIsFail =>
        /\ player_ratings = last.pre_ratings
        /\ \A x \in procs[last.proc].written :
              /\ x \in DOMAIN player_ratings
              /\ player_ratings[x].games_played >= 1

\* C13 witness: the application failed between its second and its third
\* rating write: the two players of team 1 have their new rating, the two
\* of team 2 have no rating row.
C13_Witness ==
    /\ LastIsFail
    /\ procs[last.proc].failed_at \in {"games_played", "upsert"}
    /\ Cardinality(procs[last.proc].written) = 2
    /\ \A k \in 1..2 :
          /\ RowsAt(last.proc)[k].player_id \in DOMAIN player_ratings
          /\ player_ratings[RowsAt(last.proc)[k].player_id].mu
                = ComputedAt(last.proc)[k].mu
    /\ \A k \in 3..4 :
          RowsAt(last.proc)[k].player_id \notin DOMAIN player_ratings

====
